---- MODULE Spec2Model ----
(***************************************************************************)
(* Fire-incident dashboard (src/streamlit_app.py): the normalisation       *)
(* pipeline run by load_data (column reconciliation, numeric coercion,     *)
(* geocoordinate resolution, cause classification) and the aggregations    *)
(* that main() runs over the normalised frame.                             *)
(*                                                                         *)
(* Text is modelled as a sequence of Unicode code points ("3,0" is         *)
(* <<51, 44, 48>>), so that str.strip, str.lower, str.replace, str.split,  *)
(* substring tests and number parsing are computed character by character. *)
(* A cell value is a record [t, s, num, sc]:                               *)
(*   t = "str"  text s                                                     *)
(*   t = "nan"  a missing value (NaN / None / NaT)                         *)
(*   t = "num"  the finite number num / 10^sc (an integer when sc = 0)     *)
(*   t = "inf"  +infinity (num = 1) or -infinity (num = -1)                *)
(* A frame is [names, vals, n]: the ordered column names, the columns      *)
(* (each a sequence of n cells) and the number of rows.                    *)
(***************************************************************************)
EXTENDS Integers, Sequences, FiniteSets, TLC

VARIABLES uploaded_file, df, pc, report

vars == <<uploaded_file, df, pc, report>>

(***************************************************************************)
(* Cell values                                                             *)
(***************************************************************************)
StrV(s) == [t |-> "str", s |-> s, num |-> 0, sc |-> 0]

NaN == [t |-> "nan", s |-> <<>>, num |-> 0, sc |-> 0]

Inf(sign) == [t |-> "inf", s |-> <<>>, num |-> sign, sc |-> 0]

RECURSIVE Pow10(_)
Pow10(k) == IF k = 0 THEN 1 ELSE 10 * Pow10(k - 1)

\* num / 10^sc with trailing zeros of the fraction removed, so that equal
\* numbers are equal records (45.0 = 45)
RECURSIVE Num(_, _)
Num(n, k) ==
    IF k > 0 /\ n % 10 = 0 THEN Num(n \div 10, k - 1)
    ELSE [t |-> "num", s |-> <<>>, num |-> n, sc |-> k]

IntV(n) == Num(n, 0)

IsNa(v) == v.t = "nan"

Abs(n) == IF n < 0 THEN -n ELSE n

\* lo <= v <= hi for a float v and integers lo, hi (infinities are outside)
InRange(v, lo, hi) ==
    /\ v.t = "num"
    /\ lo * Pow10(v.sc) <= v.num
    /\ v.num <= hi * Pow10(v.sc)

(***************************************************************************)
(* Python / pandas string operations                                       *)
(***************************************************************************)
\* str.isspace for the characters of str.strip()
IsSpace(c) == c \in {9, 10, 11, 12, 13, 28, 29, 30, 31, 32, 133, 160}

IsDigit(c) == c >= 48 /\ c <= 57

RECURSIVE LStrip(_)
LStrip(s) == IF s # <<>> /\ IsSpace(Head(s)) THEN LStrip(Tail(s)) ELSE s

RECURSIVE RStrip(_)
RStrip(s) ==
    IF s # <<>> /\ IsSpace(s[Len(s)]) THEN RStrip(SubSeq(s, 1, Len(s) - 1)) ELSE s

Strip(s) == RStrip(LStrip(s))

LowerChar(c) ==
    IF (c >= 65 /\ c <= 90) \/ (c >= 1040 /\ c <= 1071) THEN c + 32
    ELSE IF c >= 1024 /\ c <= 1039 THEN c + 80
    ELSE c

Lower(s) == [i \in 1..Len(s) |-> LowerChar(s[i])]

\* pattern in text
Contains(text, pattern) ==
    \E i \in 0..(Len(text) - Len(pattern)) :
        SubSeq(text, i + 1, i + Len(pattern)) = pattern

\* str.replace(a, b) for single characters a, b
ReplaceChar(s, a, b) == [i \in 1..Len(s) |-> IF s[i] = a THEN b ELSE s[i]]

\* str.split(sep) for a single character sep: the pieces between separators
RECURSIVE SplitFrom(_, _, _)
SplitFrom(s, sep, cur) ==
    IF s = <<>> THEN <<cur>>
    ELSE IF Head(s) = sep THEN <<cur>> \o SplitFrom(Tail(s), sep, <<>>)
    ELSE SplitFrom(Tail(s), sep, Append(cur, Head(s)))

Split(s, sep) == SplitFrom(s, sep, <<>>)

\* sep.join(parts)
RECURSIVE Join(_, _)
Join(parts, sep) ==
    IF parts = <<>> THEN <<>>
    ELSE IF Len(parts) = 1 THEN parts[1]
    ELSE parts[1] \o sep \o Join(Tail(parts), sep)

\* str(n) for an integer n
RECURSIVE DigitsOf(_)
DigitsOf(n) == IF n < 10 THEN <<48 + n>> ELSE Append(DigitsOf(n \div 10), 48 + (n % 10))

\* the last k digits of n, zero padded
RECURSIVE FracDigits(_, _)
FracDigits(n, k) == IF k = 0 THEN <<>> ELSE Append(FracDigits(n \div 10, k - 1), 48 + (n % 10))

\* str(v): the text pandas' astype(str) gives a cell
AsTypeStr(v) ==
    CASE v.t = "str" -> v.s
      [] v.t = "nan" -> <<110, 97, 110>>
      [] v.t = "inf" -> IF v.num < 0 THEN <<45, 105, 110, 102>> ELSE <<105, 110, 102>>
      [] v.t = "num" ->
            (IF v.num < 0 THEN <<45>> ELSE <<>>)
            \o DigitsOf(Abs(v.num) \div Pow10(v.sc))
            \o (IF v.sc > 0 THEN <<46>> \o FracDigits(Abs(v.num) % Pow10(v.sc), v.sc) ELSE <<>>)

(***************************************************************************)
(* pd.to_numeric(errors='coerce') on one text cell                         *)
(***************************************************************************)
\* the position after the spaces (isspace_ascii of the C parser) from i on
RECURSIVE SkipSpaceAscii(_, _)
SkipSpaceAscii(s, i) ==
    IF i <= Len(s) /\ s[i] \in {9, 10, 11, 12, 13, 32} THEN SkipSpaceAscii(s, i + 1) ELSE i

RECURSIVE ScanDigits(_, _)
ScanDigits(s, i) == IF i <= Len(s) /\ IsDigit(s[i]) THEN ScanDigits(s, i + 1) ELSE i

\* the value of the digits s[i..j-1]
RECURSIVE DigitsValue(_, _, _)
DigitsValue(s, i, j) ==
    IF j <= i THEN 0 ELSE 10 * DigitsValue(s, i, j - 1) + (s[j - 1] - 48)

\* the C parser reads  [ws] [sign] digits [. digits] [e [sign] digits] [ws]
\* and fails (NaN) on any other text. m / 10^scale times 10^e:
Scaled(m, scale, e) ==
    IF e >= scale THEN Num(m * Pow10(e - scale), 0) ELSE Num(m, scale - e)

\* the exponent digits are s[i5..i6-1]; with no digit after the e, the e is
\* not consumed and is left over as trailing text
ParseEnd(s, m, scale, i4, i5, i6) ==
    IF i6 > i5
    THEN IF SkipSpaceAscii(s, i6) <= Len(s) THEN NaN
         ELSE IF s[i5 - 1] = 45 THEN Scaled(m, scale + DigitsValue(s, i5, i6), 0)
         ELSE Scaled(m, scale, DigitsValue(s, i5, i6))
    ELSE IF SkipSpaceAscii(s, i4) <= Len(s) THEN NaN
    ELSE Num(m, scale)

\* the position after an e and its sign at i4, i4 itself when there is no e
AfterE(s, i4) ==
    IF i4 <= Len(s) /\ s[i4] \in {69, 101}
    THEN IF i4 + 1 <= Len(s) /\ s[i4 + 1] \in {43, 45} THEN i4 + 2 ELSE i4 + 1
    ELSE i4

\* the digits are s[i1..i2-1] and s[i3..i4-1]; at least one is needed
ParseDigits(s, sgn, i1, i2, i3, i4) ==
    IF (i2 - i1) + (i4 - i3) = 0 THEN NaN
    ELSE ParseEnd(s,
                  sgn * (DigitsValue(s, i1, i2) * Pow10(i4 - i3) + DigitsValue(s, i3, i4)),
                  i4 - i3, i4, AfterE(s, i4),
                  IF AfterE(s, i4) > i4 THEN ScanDigits(s, AfterE(s, i4)) ELSE i4)

\* the integer digits are s[i1..i2-1]; a point at i2 starts the fraction
ParsePoint(s, sgn, i1, i2) ==
    IF i2 <= Len(s) /\ s[i2] = 46
    THEN ParseDigits(s, sgn, i1, i2, i2 + 1, ScanDigits(s, i2 + 1))
    ELSE ParseDigits(s, sgn, i1, i2, i2, i2)

ParseSign(s, i0) ==
    IF i0 <= Len(s) /\ s[i0] \in {43, 45}
    THEN ParsePoint(s, IF s[i0] = 45 THEN -1 ELSE 1, i0 + 1, ScanDigits(s, i0 + 1))
    ELSE ParsePoint(s, 1, i0, ScanDigits(s, i0))

ToDouble(s) == ParseSign(s, SkipSpaceAscii(s, 1))

\* the words the parser accepts besides numbers, compared without case
\* the parser's result d, or the word when the text is no number
Floatify(s, d) ==
    IF ~IsNa(d) THEN d
    ELSE IF Lower(s) \in {<<105, 110, 102>>, <<43, 105, 110, 102>>, <<105, 110, 102, 105, 110, 105, 116, 121>>, <<43, 105, 110, 102, 105, 110, 105, 116, 121>>} THEN Inf(1)
    ELSE IF Lower(s) \in {<<45, 105, 110, 102>>, <<45, 105, 110, 102, 105, 110, 105, 116, 121>>} THEN Inf(-1)
    ELSE NaN

ToNumeric(v) ==
    IF v.t # "str" THEN v
    ELSE IF v.s = <<>> THEN NaN
    ELSE Floatify(v.s, ToDouble(v.s))

(***************************************************************************)
(* Frames                                                                  *)
(***************************************************************************)
HasCol(d, c) == \E i \in 1..Len(d.names) : d.names[i] = c

ColIdx(d, c) == CHOOSE i \in 1..Len(d.names) : d.names[i] = c

Col(d, c) == d.vals[ColIdx(d, c)]

\* d[c] = v: replaces the column in place, or appends a new last column
SetCol(d, c, v) ==
    IF HasCol(d, c) THEN [d EXCEPT !.vals[ColIdx(d, c)] = v]
    ELSE [d EXCEPT !.names = Append(@, c), !.vals = Append(@, v)]

\* a column holding x in every row
Const(d, x) == [i \in 1..d.n |-> x]

\* the value load_data returns when the load fails (None)
NoFrame == [names |-> <<>>, vals |-> <<>>, n |-> 0]

(***************************************************************************)
(* Column names and literals of the source                                 *)
(***************************************************************************)
c_count == <<1082, 1086, 1083, 1080, 1095, 1077, 1089, 1090, 1074, 1086, 95, 1087, 1086, 1078, 1072, 1088, 1086, 1074>>

c_date_src == <<1076, 1072, 1090, 1072, 32, 1074, 1086, 1079, 1085, 1080, 1082, 1085, 1086, 1074, 1077, 1085, 1080, 1103>>

c_date == <<1076, 1072, 1090, 1072>>

c_year == <<1075, 1086, 1076>>

c_month == <<1084, 1077, 1089, 1103, 1094>>

c_month_name == <<1084, 1077, 1089, 1103, 1094, 95, 1085, 1072, 1079, 1074, 1072, 1085, 1080, 1077>>

c_district_src == <<1084, 1091, 1085, 1080, 1094, 1080, 1087, 1072, 1083, 1100, 1085, 1099, 1081, 32, 1088, 1072, 1081, 1086, 1085>>

c_district == <<1088, 1072, 1081, 1086, 1085>>

c_settlement == <<1085, 1072, 1089, 1077, 1083, 1077, 1085, 1085, 1099, 1081, 95, 1087, 1091, 1085, 1082, 1090>>

c_geo == <<1075, 1077, 1086, 1090, 1086, 1095, 1082, 1072>>

c_object == <<1086, 1073, 1098, 1077, 1082, 1090>>

c_cause_src == <<1087, 1088, 1080, 1095, 1080, 1085, 1072, 32, 1087, 1086, 1078, 1072, 1088, 1072>>

c_cause == <<1087, 1088, 1080, 1095, 1080, 1085, 1072>>

c_deaths_src == <<1087, 1086, 1075, 1080, 1073, 1083, 1086, 32, 1083, 1102, 1076, 1077, 1081, 58, 32, 1074, 1089, 1077, 1075, 1086>>

c_deaths == <<1087, 1086, 1075, 1080, 1073, 1083, 1086>>

c_child_deaths_src == <<1074, 32, 32, 1090, 46, 1095, 46, 32, 1087, 1086, 1075, 1080, 1073, 1083, 1086, 32, 1076, 1077, 1090, 1077, 1081>>

c_child_deaths == <<1087, 1086, 1075, 1080, 1073, 1083, 1086, 95, 1076, 1077, 1090, 1077, 1081>>

c_injuries_src == <<1087, 1086, 1083, 1091, 1095, 1080, 1083, 1080, 32, 1090, 1088, 1072, 1074, 1084, 1099, 58, 32, 1074, 1089, 1077, 1075, 1086>>

c_injuries == <<1090, 1088, 1072, 1074, 1084, 1099>>

c_child_injuries_src == <<1074, 32, 32, 1090, 46, 1095, 46, 32, 1087, 1086, 1083, 1091, 1095, 1080, 1083, 1080, 32, 1090, 1088, 1072, 1074, 1084, 1099, 58, 32, 1076, 1077, 1090, 1077, 1081>>

c_child_injuries == <<1090, 1088, 1072, 1074, 1084, 1099, 95, 1076, 1077, 1090, 1077, 1081>>

c_rescued == <<1089, 1087, 1072, 1089, 1077, 1085, 1086>>

c_evacuated == <<1101, 1074, 1072, 1082, 1091, 1080, 1088, 1086, 1074, 1072, 1085, 1086>>

c_total_deaths == <<1074, 1089, 1077, 1075, 1086, 95, 1087, 1086, 1075, 1080, 1073, 1083, 1086>>

c_total_injuries == <<1074, 1089, 1077, 1075, 1086, 95, 1090, 1088, 1072, 1074, 1084, 1099>>

c_lat == <<108, 97, 116>>

c_lon == <<108, 111, 110>>

c_cause_merged == <<1087, 1088, 1080, 1095, 1080, 1085, 1072, 95, 1086, 1073, 1098, 1077, 1076, 1080, 1085, 1077, 1085, 1085, 1072, 1103>>

c_cause_clean == <<1087, 1088, 1080, 1095, 1080, 1085, 1072, 95, 1086, 1095, 1080, 1097, 1077, 1085, 1085, 1072, 1103>>

\* 'Не указано', the fill of the text columns
NotSpecifiedText == <<1053, 1077, 32, 1091, 1082, 1072, 1079, 1072, 1085, 1086>>

\* 'Не указана', the merged cause of a record without cause information
NotSpecifiedCause == <<1053, 1077, 32, 1091, 1082, 1072, 1079, 1072, 1085, 1072>>

column_mapping ==
    << <<c_district_src, c_district>>,
       <<<<1085, 1072, 1089, 1077, 1083, 1077, 1085, 1085, 1099, 1081, 32, 1087, 1091, 1085, 1082, 1090>>, c_settlement>>,
       <<<<1091, 1083, 1080, 1094, 1072>>, <<1091, 1083, 1080, 1094, 1072>>>>,
       <<<<1076, 1086, 1084>>, <<1076, 1086, 1084>>>>,
       <<c_geo, c_geo>>,
       <<<<1086, 1073, 1098, 1077, 1076, 1080, 1085, 1077, 1085, 1085, 1099, 1081, 32, 1072, 1076, 1088, 1077, 1089>>, <<1072, 1076, 1088, 1077, 1089>>>>,
       <<<<1086, 1073, 1098, 1077, 1082, 1090, 32, 1087, 1086, 1078, 1072, 1088, 1072, 32, 40, 1079, 1072, 1075, 1086, 1088, 1072, 1085, 1080, 1103, 41>>, c_object>>,
       <<<<1086, 1073, 1098, 1077, 1082, 1090, 32, 1087, 1086, 1078, 1072, 1088, 1072>>, c_object>>,
       <<c_cause_src, c_cause>>,
       <<c_deaths_src, c_deaths>>,
       <<c_child_deaths_src, c_child_deaths>>,
       <<c_injuries_src, c_injuries>>,
       <<c_child_injuries_src, c_child_injuries>>,
       <<<<1089, 1087, 1072, 1089, 1077, 1085, 1086, 32, 1085, 1072, 32, 1087, 1086, 1078, 1072, 1088, 1077, 32, 1083, 1102, 1076, 1077, 1081>>, c_rescued>>,
       <<<<1101, 1074, 1072, 1082, 1091, 1080, 1088, 1086, 1074, 1072, 1085, 1086, 32, 1085, 1072, 32, 1087, 1086, 1078, 1072, 1088, 1077, 32, 1083, 1102, 1076, 1077, 1081>>, c_evacuated>> >>

numeric_columns ==
    <<c_deaths, c_injuries, c_child_deaths, c_child_injuries, c_rescued, c_evacuated>>

text_columns == <<c_district, c_object, c_cause, c_settlement>>

(***************************************************************************)
(* process_numeric_data                                                    *)
(***************************************************************************)
\* the cells .replace(['', ' ', '  ', None, 'None', 'NaN', 'nan'], 0) replaces
ReplaceBlank(v) ==
    IF IsNa(v) \/ (v.t = "str" /\ v.s \in {<<>>, <<32>>, <<32, 32>>, <<78, 111, 110, 101>>, <<78, 97, 78>>, <<110, 97, 110>>})
    THEN IntV(0) ELSE v

\* a variant of ReplaceComma that keeps the comma
ReplaceComma_Kept(v) == StrV(AsTypeStr(v))

\* .astype(str).str.replace(',', '.')
ReplaceComma(v) == StrV(ReplaceChar(AsTypeStr(v), 44, 46))

\* .astype(str).str.strip()
StripCell(v) == StrV(Strip(AsTypeStr(v)))

\* .fillna(0)
FillNa0(v) == IF IsNa(v) THEN IntV(0) ELSE v

\* the cell before .astype(int): lines 173-177
CoerceCell(v) == FillNa0(ToNumeric(StripCell(ReplaceComma(ReplaceBlank(v)))))

\* .astype(int) raises on a column holding a non-finite value
AsTypeIntRaises(col) == \E i \in 1..Len(col) : col[i].t # "num"

\* .astype(int) truncates a finite float toward zero
AsTypeInt(v) ==
    IF v.num < 0 THEN IntV(-(Abs(v.num) \div Pow10(v.sc))) ELSE IntV(v.num \div Pow10(v.sc))

\* a + b on two integer columns
AddCols(a, b) == [i \in 1..Len(a) |-> IntV(a[i].num + b[i].num)]

\* the loop over numeric_columns from column k on; ok = FALSE when a step raised
RECURSIVE NumericLoop(_, _)
RECURSIVE StoreCoerced(_, _, _)
\* line 177: df[col] = df[col].astype(int), then the next column
StoreCoerced(d, k, coerced) ==
    IF AsTypeIntRaises(coerced) THEN [ok |-> FALSE, df |-> d]
    ELSE NumericLoop(SetCol(d, numeric_columns[k], [i \in 1..d.n |-> AsTypeInt(coerced[i])]),
                     k + 1)

NumericLoop(d, k) ==
    IF k > Len(numeric_columns) THEN [ok |-> TRUE, df |-> d]
    ELSE IF HasCol(d, numeric_columns[k])
    THEN StoreCoerced(d, k, [i \in 1..d.n |-> CoerceCell(Col(d, numeric_columns[k])[i])])
    ELSE NumericLoop(SetCol(d, numeric_columns[k], Const(d, IntV(0))), k + 1)

\* a variant of TotalDeaths that leaves the child deaths out
TotalDeaths_AdultsOnly(d) == AddCols(Col(d, c_deaths), Const(d, IntV(0)))

TotalDeaths(d) == AddCols(Col(d, c_deaths), Col(d, c_child_deaths))

TotalInjuries(d) == AddCols(Col(d, c_injuries), Col(d, c_child_injuries))

\* line 188
WithTotalInjuries(d) == SetCol(d, c_total_injuries, TotalInjuries(d))

\* lines 187-188 after the loop, unless the loop raised
AddTotals(r) ==
    IF ~r.ok THEN r ELSE [ok |-> TRUE, df |-> WithTotalInjuries(SetCol(r.df, c_total_deaths, TotalDeaths(r.df)))]

process_numeric_data(d) == AddTotals(NumericLoop(d, 1))

(***************************************************************************)
(* process_geodata                                                         *)
(***************************************************************************)
\* a variant of ResolveRow that tries the ordering (lon, lat) first
ResolveRow_LonFirst(num1, num2) ==
    IF IsNa(num1) \/ IsNa(num2) THEN <<NaN, NaN>>
    ELSE IF InRange(num2, -90, 90) /\ InRange(num1, -180, 180) THEN <<num2, num1>>
    ELSE IF InRange(num1, -90, 90) /\ InRange(num2, -180, 180) THEN <<num1, num2>>
    ELSE <<NaN, NaN>>

\* a variant of ResolveRow that takes the second ordering without testing it
ResolveRow_Untested(num1, num2) ==
    IF IsNa(num1) \/ IsNa(num2) THEN <<NaN, NaN>>
    ELSE IF InRange(num1, -90, 90) /\ InRange(num2, -180, 180) THEN <<num1, num2>>
    ELSE <<num2, num1>>

\* lines 223-240 for one row: <<lat, lon>>, both NaN when the row is skipped
ResolveRow(num1, num2) ==
    IF IsNa(num1) \/ IsNa(num2) THEN <<NaN, NaN>>
    ELSE IF InRange(num1, -90, 90) /\ InRange(num2, -180, 180) THEN <<num1, num2>>
    ELSE IF InRange(num2, -90, 90) /\ InRange(num1, -180, 180) THEN <<num2, num1>>
    ELSE <<NaN, NaN>>

\* .astype(str).str.split(' ', expand=True): the pieces of each row
GeoTokens(d) == [i \in 1..d.n |-> Split(AsTypeStr(Col(d, c_geo)[i]), 32)]

\* len(coords.columns): the largest number of pieces of a row
NumCoordColumns(toks) ==
    IF Len(toks) = 0 THEN 0
    ELSE CHOOSE m \in {Len(toks[i]) : i \in 1..Len(toks)} :
             \A i \in 1..Len(toks) : Len(toks[i]) <= m

\* pd.to_numeric(coords[k], errors='coerce') at row i (a short row holds None)
CoordNumber(toks, i, k) ==
    IF Len(toks[i]) >= k THEN ToNumeric(StrV(toks[i][k])) ELSE NaN

\* lines 218-219 and 243-244: the columns lat and lon from the resolved rows
SetLatLon(d, res) ==
    SetCol(SetCol(d, c_lat, [i \in 1..d.n |-> res[i][1]]),
           c_lon, [i \in 1..d.n |-> res[i][2]])

\* lines 209-244
ResolveCoords(d, toks) ==
    IF NumCoordColumns(toks) < 2 THEN d
    ELSE SetLatLon(d, [i \in 1..d.n |->
                          ResolveRow(CoordNumber(toks, i, 1), CoordNumber(toks, i, 2))])

process_geodata(d) == IF ~HasCol(d, c_geo) THEN d ELSE ResolveCoords(d, GeoTokens(d))

(***************************************************************************)
(* improve_cause_analysis and clean_and_categorize_cause                   *)
(***************************************************************************)
\* any(keyword in col.lower() for keyword in [...])
IsCauseColumn(name) ==
    \E keyword \in {<<1087, 1088, 1080, 1095, 1080, 1085, 1072>>, <<99, 97, 117, 115, 101>>, <<114, 101, 97, 115, 111, 110>>} : Contains(Lower(name), keyword)

\* the names of d, in column order, that pass the test
RECURSIVE CauseColumnsFrom(_, _)
CauseColumnsFrom(names, k) ==
    IF k > Len(names) THEN <<>>
    ELSE (IF IsCauseColumn(names[k]) THEN <<names[k]>> ELSE <<>>)
         \o CauseColumnsFrom(names, k + 1)

CauseColumns(d) == CauseColumnsFrom(d.names, 1)

\* pd.notna(v) and str(v).strip() not in ['', 'nan', 'None']
HasCauseInfo(v) ==
    ~IsNa(v) /\ Strip(AsTypeStr(v)) \notin {<<>>, <<110, 97, 110>>, <<78, 111, 110, 101>>}

\* a variant of CauseOf that does not trim the value
CauseOf_Untrimmed(v) == IF HasCauseInfo(v) THEN <<AsTypeStr(v)>> ELSE <<>>

\* causes.append(str(row[col]).strip()) when the cell holds information
CauseOf(v) == IF HasCauseInfo(v) THEN <<Strip(AsTypeStr(v))>> ELSE <<>>

\* the list causes of row i, over the cause columns from the k-th on
RECURSIVE RowCauses(_, _, _, _)
RowCauses(d, cols, i, k) ==
    IF k > Len(cols) THEN <<>>
    ELSE CauseOf(Col(d, cols[k])[i]) \o RowCauses(d, cols, i, k + 1)

\* '; '.join(causes) if causes else 'Не указана'
JoinCauses(causes) ==
    IF causes # <<>> THEN StrV(Join(causes, <<59, 32>>)) ELSE StrV(NotSpecifiedCause)

MergedCause(d, cols, i) == JoinCauses(RowCauses(d, cols, i, 1))

cat_electrical == <<1069, 1083, 1077, 1082, 1090, 1088, 1086, 1086, 1073, 1086, 1088, 1091, 1076, 1086, 1074, 1072, 1085, 1080, 1077>>

cat_careless == <<1053, 1077, 1086, 1089, 1090, 1086, 1088, 1086, 1078, 1085, 1086, 1077, 32, 1086, 1073, 1088, 1072, 1097, 1077, 1085, 1080, 1077, 32, 1089, 32, 1086, 1075, 1085, 1077, 1084>>

cat_household == <<1041, 1099, 1090, 1086, 1074, 1072, 1103, 32, 1090, 1077, 1093, 1085, 1080, 1082, 1072>>

cat_natural == <<1055, 1088, 1080, 1088, 1086, 1076, 1085, 1099, 1077, 32, 1087, 1088, 1080, 1095, 1080, 1085, 1099>>

cat_technogenic == <<1058, 1077, 1093, 1085, 1086, 1075, 1077, 1085, 1085, 1099, 1077, 32, 1087, 1088, 1080, 1095, 1080, 1085, 1099>>

cat_construction == <<1057, 1090, 1088, 1086, 1080, 1090, 1077, 1083, 1100, 1085, 1099, 1077, 32, 1087, 1088, 1080, 1095, 1080, 1085, 1099>>

cat_fire_safety == <<1053, 1072, 1088, 1091, 1096, 1077, 1085, 1080, 1077, 32, 1087, 1088, 1072, 1074, 1080, 1083, 32, 1087, 1086, 1078, 1072, 1088, 1085, 1086, 1081, 32, 1073, 1077, 1079, 1086, 1087, 1072, 1089, 1085, 1086, 1089, 1090, 1080>>

cat_other == <<1044, 1088, 1091, 1075, 1080, 1077, 32, 1087, 1088, 1080, 1095, 1080, 1085, 1099>>

cat_unspecified == <<1055, 1088, 1080, 1095, 1080, 1085, 1072, 32, 1085, 1077, 32, 1091, 1082, 1072, 1079, 1072, 1085, 1072>>

\* the dict cause_patterns, in insertion order: <<category, patterns>>
cause_patterns ==
    << <<cat_electrical,
         <<<<1101, 1083, 1077, 1082, 1090, 1088>>, <<1087, 1088, 1086, 1074, 1086, 1076, 1082, 1072>>, <<1082, 1086, 1088, 1086, 1090, 1082, 1086, 1077, 32, 1079, 1072, 1084, 1099, 1082, 1072, 1085, 1080, 1077>>, <<1101, 1083, 1077, 1082, 1090, 1088, 1080, 1095>>, <<1088, 1086, 1079, 1077, 1090, 1082, 1072>>,
           <<1074, 1099, 1082, 1083, 1102, 1095, 1072, 1090, 1077, 1083, 1100>>, <<1089, 1077, 1090, 1100>>, <<1085, 1072, 1087, 1088, 1103, 1078, 1077, 1085, 1080, 1077>>, <<1101, 1083, 46>>, <<1101, 1083, 46, 1086, 1073, 1086, 1088, 1091, 1076, 1086, 1074, 1072, 1085, 1080, 1077>>>> >>,
       <<cat_careless,
         <<<<1085, 1077, 1086, 1089, 1090, 1086, 1088, 1086, 1078>>, <<1082, 1091, 1088, 1077, 1085, 1080, 1077>>, <<1089, 1087, 1080, 1095, 1082, 1080>>, <<1079, 1072, 1078, 1080, 1075, 1072, 1083, 1082, 1072>>, <<1086, 1075, 1086, 1085, 1100>>, <<1082, 1086, 1089, 1090, 1077, 1088>>,
           <<1087, 1086, 1076, 1078, 1086, 1075>>, <<1091, 1084, 1099, 1096, 1083, 1077, 1085>>, <<1076, 1077, 1090, 1089, 1082, 1072, 1103, 32, 1096, 1072, 1083, 1086, 1089, 1090, 1100>>>> >>,
       <<cat_household,
         <<<<1090, 1077, 1083, 1077, 1074, 1080, 1079, 1086, 1088>>, <<1093, 1086, 1083, 1086, 1076, 1080, 1083, 1100, 1085, 1080, 1082>>, <<1095, 1072, 1081, 1085, 1080, 1082>>, <<1091, 1090, 1102, 1075>>, <<1084, 1080, 1082, 1088, 1086, 1074, 1086, 1083, 1085, 1086, 1074, 1082, 1072>>,
           <<1086, 1073, 1086, 1075, 1088, 1077, 1074, 1072, 1090, 1077, 1083, 1100>>, <<1086, 1090, 1086, 1087, 1083, 1077, 1085, 1080, 1077>>, <<1087, 1077, 1095, 1100>>, <<1082, 1072, 1084, 1080, 1085>>>> >>,
       <<cat_natural,
         <<<<1084, 1086, 1083, 1085, 1080, 1103>>, <<1075, 1088, 1086, 1079, 1072>>, <<1089, 1086, 1083, 1085, 1094, 1077>>, <<1079, 1072, 1089, 1091, 1093, 1072>>, <<1087, 1088, 1080, 1088, 1086, 1076, 1085>>, <<1089, 1072, 1084, 1086, 1074, 1086, 1079, 1075, 1086, 1088, 1072, 1085, 1080, 1077>>>> >>,
       <<cat_technogenic,
         <<<<1087, 1088, 1086, 1080, 1079, 1074, 1086, 1076, 1089, 1090, 1074>>, <<1090, 1077, 1093, 1085, 1080, 1082>>, <<1086, 1073, 1086, 1088, 1091, 1076, 1086, 1074, 1072, 1085, 1080, 1077>>, <<1072, 1074, 1090, 1086, 1084, 1086, 1073, 1080, 1083, 1100>>, <<1090, 1088, 1072, 1085, 1089, 1087, 1086, 1088, 1090>>,
           <<1075, 1072, 1079>>, <<1090, 1086, 1087, 1083, 1080, 1074, 1086>>, <<1093, 1080, 1084, 1080, 1095>>, <<1075, 1086, 1088, 1102, 1095>>>> >>,
       <<cat_construction,
         <<<<1088, 1077, 1084, 1086, 1085, 1090>>, <<1089, 1090, 1088, 1086, 1080, 1090, 1077, 1083, 1100, 1089, 1090, 1074>>, <<1089, 1074, 1072, 1088, 1082, 1072>>, <<1086, 1090, 1076, 1077, 1083, 1082>>, <<1087, 1086, 1082, 1088, 1072, 1089, 1082, 1072>>>> >>,
       <<cat_fire_safety,
         <<<<1085, 1072, 1088, 1091, 1096, 1077, 1085, 1080, 1077>>, <<1087, 1088, 1072, 1074, 1080, 1083, 1072>>, <<1087, 1086, 1078, 1072, 1088, 1085, 1072, 1103, 32, 1073, 1077, 1079, 1086, 1087, 1072, 1089, 1085, 1086, 1089, 1090, 1100>>, <<1087, 1087, 1073>>, <<1085, 1086, 1088, 1084, 1099>>>> >> >>

\* the inner loop: the first pattern of the list, from the j-th on, found in text
RECURSIVE AnyPatternFrom(_, _, _)
AnyPatternFrom(text, patterns, j) ==
    IF j > Len(patterns) THEN FALSE
    ELSE IF Contains(text, patterns[j]) THEN TRUE
    ELSE AnyPatternFrom(text, patterns, j + 1)

\* a variant of MatchFrom in which the last matching category wins
MatchFrom_LastMatch(text, k) ==
    IF \A c \in k..Len(cause_patterns) : ~AnyPatternFrom(text, cause_patterns[c][2], 1)
    THEN <<>>
    ELSE cause_patterns[CHOOSE c \in k..Len(cause_patterns) :
                           /\ AnyPatternFrom(text, cause_patterns[c][2], 1)
                           /\ \A e \in (c + 1)..Len(cause_patterns) :
                                  ~AnyPatternFrom(text, cause_patterns[e][2], 1)][1]

\* the outer loop over cause_patterns.items() from the k-th category on:
\* the category returned, or <<>> when the loops end without a return
RECURSIVE MatchFrom(_, _)
MatchFrom(text, k) ==
    IF k > Len(cause_patterns) THEN <<>>
    ELSE IF AnyPatternFrom(text, cause_patterns[k][2], 1) THEN cause_patterns[k][1]
    ELSE MatchFrom(text, k + 1)

\* a variant of CategoryOr that does not look for the no-cause phrases
CategoryOr_AnyLongText(text, hit) ==
    IF hit # <<>> THEN hit
    ELSE IF Len(text) > 10 THEN cat_other
    ELSE cat_unspecified

\* the return value once the loops are over: lines 338-347
CategoryOr(text, hit) ==
    IF hit # <<>> THEN hit
    ELSE IF Len(text) > 10 /\ text \notin {<<1085, 1077, 32, 1091, 1082, 1072, 1079, 1072, 1085, 1072>>, <<1085, 1077, 1090>>, <<1085, 1077, 32, 1091, 1089, 1090, 1072, 1085, 1086, 1074, 1083, 1077, 1085, 1072>>}
    THEN cat_other
    ELSE cat_unspecified

clean_and_categorize_cause(v) ==
    IF IsNa(v) \/ (v.t = "str" /\ v.s \in {<<>>, <<110, 97, 110>>, <<78, 111, 110, 101>>, NotSpecifiedCause})
    THEN cat_unspecified
    ELSE CategoryOr(Strip(Lower(AsTypeStr(v))), MatchFrom(Strip(Lower(AsTypeStr(v))), 1))

\* line 297: the column of categories
WithCleanCause(d) ==
    SetCol(d, c_cause_clean,
           [i \in 1..d.n |-> StrV(clean_and_categorize_cause(Col(d, c_cause_merged)[i]))])

\* lines 271-294: the column of merged texts
MergedCauses(d, cols) ==
    IF cols # <<>> THEN [i \in 1..d.n |-> MergedCause(d, cols, i)]
    ELSE Const(d, StrV(NotSpecifiedCause))

improve_cause_analysis(d) ==
    WithCleanCause(SetCol(d, c_cause_merged, MergedCauses(d, CauseColumns(d))))

(***************************************************************************)
(* preprocess_data and load_data                                           *)
(***************************************************************************)
\* df.columns.str.lower().str.strip()
NormalizeColumns(d) == [d EXCEPT !.names = [k \in 1..Len(d.names) |-> Strip(Lower(d.names[k]))]]

\* the days of month m of year y
DaysInMonth(y, m) ==
    IF m = 2 THEN (IF (y % 4 = 0 /\ y % 100 # 0) \/ y % 400 = 0 THEN 29 ELSE 28)
    ELSE IF m \in {4, 6, 9, 11} THEN 30 ELSE 31

\* <<year, month>> of a calendar date, NaT when there is no such date
DateParts(y, m, dd) ==
    IF y >= 1 /\ m >= 1 /\ m <= 12 /\ dd >= 1 /\ dd <= DaysInMonth(y, m)
    THEN <<IntV(y), IntV(m)>> ELSE <<NaN, NaN>>

\* a text of the shape YYYY-MM-DD
ParseIsoDate(s) ==
    IF /\ Len(s) = 10
       /\ s[5] = 45 /\ s[8] = 45
       /\ \A i \in {1, 2, 3, 4, 6, 7, 9, 10} : IsDigit(s[i])
    THEN DateParts(DigitsValue(s, 1, 5), DigitsValue(s, 6, 8), DigitsValue(s, 9, 11))
    ELSE <<NaN, NaN>>

\* pd.to_datetime(errors='coerce') on one cell, for ISO dates YYYY-MM-DD:
\* <<year, month>>, or <<NaN, NaN>> for <<NaN, NaN>>
ToDatetime(v) == IF v.t = "str" THEN ParseIsoDate(v.s) ELSE <<NaN, NaN>>

\* .dt.month_name()
MonthName(m) ==
    IF IsNa(m) THEN NaN
    ELSE StrV(<<<<74, 97, 110, 117, 97, 114, 121>>, <<70, 101, 98, 114, 117, 97, 114, 121>>, <<77, 97, 114, 99, 104>>, <<65, 112, 114, 105, 108>>, <<77, 97, 121>>, <<74, 117, 110, 101>>,
                <<74, 117, 108, 121>>, <<65, 117, 103, 117, 115, 116>>, <<83, 101, 112, 116, 101, 109, 98, 101, 114>>, <<79, 99, 116, 111, 98, 101, 114>>, <<78, 111, 118, 101, 109, 98, 101, 114>>,
                <<68, 101, 99, 101, 109, 98, 101, 114>>>>[m.num])

\* lines 100-105: the first of date_columns the frame has, <<>> when none
DateColumn(d) ==
    IF HasCol(d, c_date_src) THEN c_date_src
    ELSE IF HasCol(d, c_date) THEN c_date
    ELSE <<>>

\* lines 108-111: the parsed dates dt of column dc
SetDateColumns(d, dc, dt) ==
    SetCol(SetCol(SetCol(SetCol(d, c_date,
                                [i \in 1..d.n |-> IF IsNa(dt[i][1]) THEN NaN ELSE Col(d, dc)[i]]),
                         c_year, [i \in 1..d.n |-> dt[i][1]]),
                  c_month, [i \in 1..d.n |-> dt[i][2]]),
           c_month_name, [i \in 1..d.n |-> MonthName(dt[i][2])])

\* lines 107-116
ProcessDate(d) ==
    IF DateColumn(d) # <<>>
    THEN SetDateColumns(d, DateColumn(d), [i \in 1..d.n |-> ToDatetime(Col(d, DateColumn(d))[i])])
    ELSE SetCol(SetCol(SetCol(d, c_year, Const(d, IntV(2023))),
                       c_month, Const(d, IntV(1))),
                c_month_name, Const(d, StrV(<<1071, 1085, 1074, 1072, 1088, 1100>>)))

\* a variant of MapColumn without the test that new_col is absent
MapColumn_Overwriting(d, old_col, new_col) ==
    IF HasCol(d, old_col) THEN SetCol(d, new_col, Col(d, old_col)) ELSE d

\* lines 138-139 for one entry of column_mapping
MapColumn(d, old_col, new_col) ==
    IF HasCol(d, old_col) /\ ~HasCol(d, new_col) THEN SetCol(d, new_col, Col(d, old_col))
    ELSE d

\* lines 137-139, from the k-th entry of column_mapping on
RECURSIVE ApplyMapping(_, _)
ApplyMapping(d, k) ==
    IF k > Len(column_mapping) THEN d
    ELSE ApplyMapping(MapColumn(d, column_mapping[k][1], column_mapping[k][2]), k + 1)

\* lines 152-156 for one text column
FillColumn(d, c) ==
    IF HasCol(d, c)
    THEN SetCol(d, c, [i \in 1..d.n |->
                          IF IsNa(Col(d, c)[i]) THEN StrV(NotSpecifiedText) ELSE Col(d, c)[i]])
    ELSE SetCol(d, c, Const(d, StrV(NotSpecifiedText)))

\* lines 151-156, from the k-th text column on
RECURSIVE FillText(_, _)
FillText(d, k) ==
    IF k > Len(text_columns) THEN d ELSE FillText(FillColumn(d, text_columns[k]), k + 1)

\* lines 145-156, unless process_numeric_data raised
AfterNumeric(r) ==
    IF ~r.ok THEN r
    ELSE [ok |-> TRUE, df |-> FillText(improve_cause_analysis(process_geodata(r.df)), 1)]

preprocess_data(d) ==
    AfterNumeric(process_numeric_data(ApplyMapping(
        ProcessDate(SetCol(NormalizeColumns(d), c_count, Const(d, IntV(1)))), 1)))

\* the frame, or None when preprocess_data raised
FrameOrNone(r) == IF r.ok THEN r.df ELSE NoFrame

load_data(file) == FrameOrNone(preprocess_data(file))

(***************************************************************************)
(* groupby(...).agg(...), sort_values, head                                *)
(***************************************************************************)
\* a < b for two texts, as Python compares str
StrLess(a, b) ==
    \E i \in 1..(Len(a) + 1) :
        /\ i <= Len(b)
        /\ \A j \in 1..(i - 1) : a[j] = b[j]
        /\ (i = Len(a) + 1 \/ a[i] < b[i])

\* v < w for two cells of one column: numbers by value, texts as str
ValLess(v, w) ==
    IF v.t = "num" /\ w.t = "num" THEN v.num * Pow10(w.sc) < w.num * Pow10(v.sc)
    ELSE StrLess(v.s, w.s)

\* k1 < k2 for two group keys (tuples of cells), column by column
KeyLess(k1, k2) ==
    \E i \in 1..Len(k1) :
        /\ \A j \in 1..(i - 1) : k1[j] = k2[j]
        /\ ValLess(k1[i], k2[i])

\* the key of row i: its cells in the grouping columns
KeyOf(d, by, i) == [k \in 1..Len(by) |-> Col(d, by[k])[i]]

\* groupby drops the rows whose key holds a missing value
HasKey(d, by, i) == \A k \in 1..Len(by) : ~IsNa(Col(d, by[k])[i])

\* the keys of a set, in ascending order
LeastKey(keys) == CHOOSE k \in keys : \A o \in keys : o = k \/ KeyLess(k, o)

RECURSIVE SortedKeys(_)
SortedKeys(keys) ==
    IF keys = {} THEN <<>>
    ELSE <<LeastKey(keys)>> \o SortedKeys(keys \ {LeastKey(keys)})

\* the sum of column c over the rows of a set
RECURSIVE SumOver(_, _, _)
SumOver(d, c, rows) ==
    IF rows = {} THEN 0
    ELSE Col(d, c)[CHOOSE r \in rows : TRUE].num
         + SumOver(d, c, rows \ {CHOOSE r \in rows : TRUE})

\* d[rows].groupby(by).agg({c_count: 'count', c: 'sum' for c in sums}).reset_index():
\* one row per key, keys ascending; count is the number of non-missing cells
\* of c_count in the group
GroupsOf(d, kept, by, sums, keys) ==
    [g \in 1..Len(keys) |->
        [key |-> keys[g],
         count |-> Cardinality({i \in kept : KeyOf(d, by, i) = keys[g]
                                              /\ ~IsNa(Col(d, c_count)[i])}),
         sums |-> [k \in 1..Len(sums) |->
                      SumOver(d, sums[k], {i \in kept : KeyOf(d, by, i) = keys[g]})]]]

GroupKept(d, kept, by, sums) ==
    GroupsOf(d, kept, by, sums, SortedKeys({KeyOf(d, by, i) : i \in kept}))

GroupBy(d, rows, by, sums) == GroupKept(d, {i \in rows : HasKey(d, by, i)}, by, sums)

\* the orders sort_values(c_count, ascending=False) can return for the rows
\* with their indices in S: descending count; the default sort kind
\* (quicksort) does not fix the order of rows of equal count
RECURSIVE DescendingOrders(_, _)
DescendingOrders(rows, S) ==
    IF S = {} THEN {<<>>}
    ELSE UNION {{<<rows[i]>> \o rest : rest \in DescendingOrders(rows, S \ {i})} :
                   i \in {a \in S : \A b \in S : rows[a].count >= rows[b].count}}

SortedByCountDesc(rows) == DescendingOrders(rows, 1..Len(rows))

\* .head(10)
Head10(rows) == SubSeq(rows, 1, IF Len(rows) < 10 THEN Len(rows) ELSE 10)

(***************************************************************************)
(* The analyses                                                            *)
(***************************************************************************)
casualty_sums == <<c_total_deaths, c_total_injuries, c_child_deaths, c_child_injuries>>

\* a variant of yearly_data that counts only the records with coordinates
yearly_data_Located(d) ==
    GroupBy(d, {i \in 1..d.n : HasCol(d, c_lat) /\ ~IsNa(Col(d, c_lat)[i])},
            <<c_year>>, casualty_sums)

\* analyze_fire_trends: yearly_data
yearly_data(d) == GroupBy(d, 1..d.n, <<c_year>>, casualty_sums)

\* analyze_district_distribution: district_data before sorting
district_data(d) == GroupBy(d, 1..d.n, <<c_district>>, casualty_sums)

\* analyze_district_map: map_data, the rows with valid coordinates
MapRows(d) ==
    {i \in 1..d.n :
        /\ ~IsNa(Col(d, c_lat)[i]) /\ ~IsNa(Col(d, c_lon)[i])
        /\ InRange(Col(d, c_lat)[i], -90, 90)
        /\ InRange(Col(d, c_lon)[i], -180, 180)}

map_sums == <<c_deaths, c_injuries, c_child_deaths, c_child_injuries>>

\* analyze_district_map: aggregated_data, the map markers
aggregated_data(d) ==
    IF HasCol(d, c_district)
    THEN GroupBy(d, MapRows(d), <<c_district, c_lat, c_lon>>, map_sums)
    ELSE GroupBy(d, MapRows(d), <<c_lat, c_lon>>, map_sums)

\* analyze_causes: causes_data before sorting
causes_data(d) == GroupBy(d, 1..d.n, <<c_cause_clean>>, casualty_sums)

\* analyze_locations: locations_data before sorting
locations_data(d) == GroupBy(d, 1..d.n, <<c_object>>, <<>>)

\* analyze_seasonality: monthly_data
monthly_data(d) == GroupBy(d, 1..d.n, <<c_month>>, <<>>)

\* (x / total * 100).round(1) in tenths of a percent: round half to even
RoundHalfEven(q, r, total) ==
    IF 2 * r > total \/ (2 * r = total /\ q % 2 = 1) THEN q + 1 ELSE q

ShareTenths(x, total) == RoundHalfEven((x * 1000) \div total, (x * 1000) % total, total)

RECURSIVE SumCounts(_)
SumCounts(rows) == IF rows = <<>> THEN 0 ELSE Head(rows).count + SumCounts(Tail(rows))

\* the rows with the column share = (count / count.sum() * 100).round(1)
WithShare(rows) ==
    [g \in 1..Len(rows) |->
        [key |-> rows[g].key, count |-> rows[g].count, sums |-> rows[g].sums,
         share |-> ShareTenths(rows[g].count, SumCounts(rows))]]

\* df[c].unique() over the rows from i on: the values in order of appearance
RECURSIVE UniqueFrom(_, _, _)
UniqueFrom(col, i, seen) ==
    IF i > Len(col) THEN seen
    ELSE IF \E k \in 1..Len(seen) : seen[k] = col[i] THEN UniqueFrom(col, i + 1, seen)
    ELSE UniqueFrom(col, i + 1, Append(seen, col[i]))

\* the first three entries of a list: available_districts[:3]
FirstThree(seq) == SubSeq(seq, 1, IF Len(seq) < 3 THEN Len(seq) ELSE 3)

\* df[df[c_district].isin(districts)]
RowsOfDistricts(d, districts) ==
    {i \in 1..d.n : \E k \in 1..Len(districts) : districts[k] = Col(d, c_district)[i]}

\* analyze_district_dynamics with the default selection, the first three
\* districts: district_yearly
district_yearly(d) ==
    GroupBy(d, RowsOfDistricts(d, FirstThree(UniqueFrom(Col(d, c_district), 1, <<>>))),
            <<c_year, c_district>>, <<>>)

(***************************************************************************)
(* analyze_comparison and predict_fire_trend                               *)
(***************************************************************************)
\* df['год'].max(): the largest year, NaN when every year is missing
YearMax(d) ==
    IF \A i \in 1..d.n : IsNa(Col(d, c_year)[i]) THEN NaN
    ELSE CHOOSE y \in {Col(d, c_year)[i] : i \in 1..d.n} :
             /\ ~IsNa(y)
             /\ \A i \in 1..d.n : IsNa(Col(d, c_year)[i]) \/ Col(d, c_year)[i].num <= y.num

\* df[df['год'] == y].groupby('район').agg({count, 'погибло': sum, 'травмы': sum})
DistrictsOfYear(d, y) ==
    GroupBy(d, {i \in 1..d.n : Col(d, c_year)[i] = y}, <<c_district>>, <<c_deaths, c_injuries>>)

\* the cell of a grouped result for a key after .fillna(0): its count (k = 0)
\* or its k-th sum, 0 for a key the result lacks
ValueOr0(rows, key, k) ==
    IF \A g \in 1..Len(rows) : rows[g].key # key THEN 0
    ELSE IF k = 0 THEN rows[CHOOSE g \in 1..Len(rows) : rows[g].key = key].count
    ELSE rows[CHOOSE g \in 1..Len(rows) : rows[g].key = key].sums[k]

\* (change / previous * 100).round(1) on floats: a division by zero gives an
\* infinity (NaN for 0 / 0), not an exception
PercentChange(change, previous) ==
    IF previous = 0
    THEN (IF change > 0 THEN Inf(1) ELSE IF change < 0 THEN Inf(-1) ELSE NaN)
    ELSE IF change < 0 THEN Num(-ShareTenths(-change, previous), 1)
    ELSE Num(ShareTenths(change, previous), 1)

\* lines 787-799 for one district
ComparisonRow(cur, prev, key) ==
    [key |-> key,
     current |-> ValueOr0(cur, key, 0),
     previous |-> ValueOr0(prev, key, 0),
     current_deaths |-> ValueOr0(cur, key, 1),
     previous_deaths |-> ValueOr0(prev, key, 1),
     current_injuries |-> ValueOr0(cur, key, 2),
     previous_injuries |-> ValueOr0(prev, key, 2),
     change |-> ValueOr0(cur, key, 0) - ValueOr0(prev, key, 0),
     percent |-> PercentChange(ValueOr0(cur, key, 0) - ValueOr0(prev, key, 0),
                               ValueOr0(prev, key, 0)),
     deaths_change |-> ValueOr0(cur, key, 1) - ValueOr0(prev, key, 1),
     injuries_change |-> ValueOr0(cur, key, 2) - ValueOr0(prev, key, 2)]

\* pd.DataFrame({...}): one row per district of either year, districts ascending
ComparisonRows(cur, prev, keys) ==
    [g \in 1..Len(keys) |-> ComparisonRow(cur, prev, keys[g])]

\* lines 786-799: the table, <<>> when one of the two years has no record
ComparisonOf(cur, prev) ==
    IF cur = <<>> \/ prev = <<>> THEN <<>>
    ELSE ComparisonRows(cur, prev,
                        SortedKeys({cur[g].key : g \in 1..Len(cur)}
                                   \cup {prev[g].key : g \in 1..Len(prev)}))

\* analyze_comparison: comparison
comparison(d) ==
    IF IsNa(YearMax(d)) THEN <<>>
    ELSE ComparisonOf(DistrictsOfYear(d, YearMax(d)),
                      DistrictsOfYear(d, IntV(YearMax(d).num - 1)))

\* predict_fire_trend: yearly_stats
yearly_stats(d) == GroupBy(d, 1..d.n, <<c_year>>, <<>>)

\* the fraction f + a / b
AddFraction(f, a, b) == <<f[1] * b + a * f[2], f[2] * b>>

\* the sum of pct_change() over the rows 2..i, as a fraction
RECURSIVE GrowthSum(_, _)
GrowthSum(stats, i) ==
    IF i < 2 THEN <<0, 1>>
    ELSE AddFraction(GrowthSum(stats, i - 1),
                     stats[i].count - stats[i - 1].count, stats[i - 1].count)

\* f"{a / b:.0f}": the quotient rounded to an integer, half to even
RoundedQuotient(a, b) == RoundHalfEven(a \div b, a % b, b)

\* a variant of TrendRow that always shows a forecast
TrendRow_AlwaysForecast(stats, n, growth) ==
    [direction |-> IF stats[n].count > stats[n - 1].count THEN "increasing" ELSE "decreasing",
     change |-> PercentChange(stats[n].count - stats[n - 1].count, stats[n - 1].count),
     forecast |-> <<RoundedQuotient(stats[n].count * ((n - 1) * growth[2] + growth[1]),
                                    (n - 1) * growth[2])>>]

\* lines 837-858 on the n rows of yearly_stats, n > 1: the trend shown, and the
\* forecast current * (1 + avg_growth) when n > 2
TrendRow(stats, n, growth) ==
    [direction |-> IF stats[n].count > stats[n - 1].count THEN "increasing" ELSE "decreasing",
     change |-> PercentChange(stats[n].count - stats[n - 1].count, stats[n - 1].count),
     forecast |-> IF n > 2
                  THEN <<RoundedQuotient(stats[n].count * ((n - 1) * growth[2] + growth[1]),
                                         (n - 1) * growth[2])>>
                  ELSE <<>>]

\* predict_fire_trend: the metrics shown, <<>> for "insufficient data"
fire_trend(stats) ==
    IF Len(stats) > 1 THEN <<TrendRow(stats, Len(stats), GrowthSum(stats, Len(stats)))>>
    ELSE <<>>

(***************************************************************************)
(* The program: main() loads the uploaded file, then runs the analyses     *)
(***************************************************************************)
NoReport == [kind |-> "none", rows |-> <<>>]

\* load_data(uploaded_file), lines 876-878
LoadData ==
    /\ pc = "uploaded"
    /\ df' = load_data(uploaded_file)
    /\ pc' = IF df' # NoFrame THEN "loaded" ELSE "failed"
    /\ UNCHANGED <<uploaded_file, report>>

\* analyze_fire_trends(df), line 899
AnalyzeFireTrends ==
    /\ pc = "loaded"
    /\ report' = [kind |-> "trends", rows |-> yearly_data(df)]
    /\ pc' = "trends"
    /\ UNCHANGED <<uploaded_file, df>>

\* analyze_district_distribution(df), line 902: the ranking shown, its first
\* ten rows with their share of the fires shown
AnalyzeDistrictDistribution ==
    /\ pc = "trends"
    /\ \E sorted \in SortedByCountDesc(district_data(df)) :
           report' = [kind |-> "districts", rows |-> WithShare(Head10(sorted))]
    /\ pc' = "districts"
    /\ UNCHANGED <<uploaded_file, df>>

\* analyze_district_map(df), line 903: the markers, none when the frame has
\* no coordinates
AnalyzeDistrictMap ==
    /\ pc = "districts"
    /\ report' = [kind |-> "map",
                  rows |-> IF HasCol(df, c_lat) /\ HasCol(df, c_lon)
                           THEN aggregated_data(df) ELSE <<>>]
    /\ pc' = "map"
    /\ UNCHANGED <<uploaded_file, df>>

\* analyze_causes(df), line 906: the table of causes with their shares
AnalyzeCauses ==
    /\ pc = "map"
    /\ \E sorted \in SortedByCountDesc(causes_data(df)) :
           report' = [kind |-> "causes", rows |-> WithShare(sorted)]
    /\ pc' = "causes"
    /\ UNCHANGED <<uploaded_file, df>>

\* analyze_locations(df), line 909: the ten most frequent objects
AnalyzeLocations ==
    /\ pc = "causes"
    /\ \E sorted \in SortedByCountDesc(locations_data(df)) :
           report' = [kind |-> "locations", rows |-> Head10(sorted)]
    /\ pc' = "locations"
    /\ UNCHANGED <<uploaded_file, df>>

\* analyze_seasonality(df), line 912
AnalyzeSeasonality ==
    /\ pc = "locations"
    /\ report' = [kind |-> "seasonality", rows |-> monthly_data(df)]
    /\ pc' = "seasonality"
    /\ UNCHANGED <<uploaded_file, df>>

\* analyze_district_dynamics(df), line 915
AnalyzeDistrictDynamics ==
    /\ pc = "seasonality"
    /\ report' = [kind |-> "dynamics", rows |-> district_yearly(df)]
    /\ pc' = "dynamics"
    /\ UNCHANGED <<uploaded_file, df>>

\* analyze_comparison(df), line 918
AnalyzeComparison ==
    /\ pc = "dynamics"
    /\ report' = [kind |-> "comparison", rows |-> comparison(df)]
    /\ pc' = "comparison"
    /\ UNCHANGED <<uploaded_file, df>>

\* predict_fire_trend(df), line 921
PredictFireTrend ==
    /\ pc = "comparison"
    /\ report' = [kind |-> "forecast", rows |-> fire_trend(yearly_stats(df))]
    /\ pc' = "forecast"
    /\ UNCHANGED <<uploaded_file, df>>

Next ==
    \/ LoadData
    \/ AnalyzeFireTrends
    \/ AnalyzeDistrictDistribution
    \/ AnalyzeDistrictMap
    \/ AnalyzeCauses
    \/ AnalyzeLocations
    \/ AnalyzeSeasonality
    \/ AnalyzeDistrictDynamics
    \/ AnalyzeComparison
    \/ PredictFireTrend

(***************************************************************************)
(* Uploaded files                                                          *)
(***************************************************************************)
MaxRows == 2

MaxCellLen == 3

MaxTrendRows == 3

MaxDistricts == 11

\* a file of one column
OneColumn(name, cells) == [names |-> <<name>>, vals |-> <<cells>>, n |-> Len(cells)]

\* a file from its column names and its rows (each row a tuple of cells)
FileOf(names, rows) ==
    [names |-> names,
     vals |-> [k \in 1..Len(names) |-> [i \in 1..Len(rows) |-> rows[i][k]]],
     n |-> Len(rows)]

\* the sequences over S of length 1..k
SeqsUpTo(S, k) == UNION {[1..m -> S] : m \in 1..k}

\* the characters of numeric cells: 0 2 3 9 , . - space
NumChars == {48, 50, 51, 57, 44, 46, 45, 32}

\* cells that are words rather than numbers
WordCells ==
    {NaN, StrV(<<>>), StrV(<<78, 111, 110, 101>>), StrV(<<110, 97, 110>>), StrV(<<78, 97, 78>>), StrV(<<97, 98, 99>>),
     StrV(<<105, 110, 102>>), StrV(<<45, 105, 110, 102>>), StrV(<<73, 110, 102, 105, 110, 105, 116, 121>>), StrV(<<32, 51, 44, 48, 32>>), StrV(<<49, 101, 50>>),
     StrV(<<45, 50, 44, 57>>), StrV(<<49, 50, 44, 55, 53>>), StrV(<<49, 44, 50, 44, 51>>), StrV(<<32, 32, 32, 32>>)}

RawCells == {StrV(s) : s \in SeqsUpTo(NumChars, MaxCellLen)} \cup WordCells

\* one record, one numeric source column, every raw cell
CellFiles == {OneColumn(c_deaths_src, <<v>>) : v \in RawCells}

InitCell ==
    /\ uploaded_file \in CellFiles
    /\ df = NoFrame
    /\ pc = "uploaded"
    /\ report = NoReport

NextLoad == LoadData

SpecCell == InitCell /\ [][NextLoad]_vars

\* records of the casualty columns: deaths, child deaths, injuries, child injuries
NumRecords ==
    {<<a, b, c, StrV(<<49>>)>> :
        a \in {StrV(<<50>>), StrV(<<45, 49>>), StrV(<<51, 44, 48>>), StrV(<<105, 110, 102>>)},
        b \in {StrV(<<49>>), StrV(<<97, 98, 99>>)},
        c \in {NaN, StrV(<<32, 50, 44, 57, 32>>)}}

\* files with the four casualty source columns, and files without the last one
NumFiles ==
    {FileOf(<<c_deaths_src, c_child_deaths_src, c_injuries_src, c_child_injuries_src>>, rows) :
        rows \in SeqsUpTo(NumRecords, MaxRows)}
    \cup
    {FileOf(<<c_deaths_src, c_child_deaths_src, c_injuries_src>>, rows) :
        rows \in SeqsUpTo(NumRecords, MaxRows)}

InitNum ==
    /\ uploaded_file \in NumFiles
    /\ df = NoFrame
    /\ pc = "uploaded"
    /\ report = NoReport

SpecNum == InitNum /\ [][NextLoad]_vars


\* the numbers and words a coordinate string is made of
GeoTokenTexts ==
    {<<52, 53, 46, 48>>, <<49, 48>>, <<50, 48>>, <<49, 51, 49, 46, 48, 57, 48, 51, 49, 52>>, <<54, 48, 46, 52, 54, 53, 53, 54, 54>>, <<45, 57, 48>>, <<57, 48, 46, 53>>, <<49, 56, 48>>,
     <<45, 49, 56, 48>>, <<49, 56, 48, 46, 53>>, <<50, 48, 48>>, <<45, 57, 49>>, <<97, 98, 99>>, <<105, 110, 102>>}

\* one record: two tokens separated by one space, and other shapes
GeoCellsWide ==
    {StrV(a \o <<32>> \o b) : a \in GeoTokenTexts, b \in GeoTokenTexts}
    \cup {StrV(a) : a \in GeoTokenTexts}
    \cup {NaN, StrV(<<>>), StrV(<<49, 48, 32, 50, 48, 32, 51, 48>>), StrV(<<49, 48, 32, 32, 50, 48>>), StrV(<<32, 49, 48, 32, 50, 48>>),
          StrV(<<49, 48, 44, 53, 32, 50, 48>>), StrV(<<54, 48, 46, 52, 54, 53, 53, 54, 54, 32, 49, 51, 49, 46, 48, 57, 48, 51, 49, 52>>)}

\* the cells of files of several records
GeoCellsNarrow ==
    {StrV(<<49, 48, 32, 50, 48>>), StrV(<<49, 51, 49, 46, 48, 57, 48, 51, 49, 52, 32, 54, 48, 46, 52, 54, 53, 53, 54, 54>>), StrV(<<50, 48, 48, 32, 49, 48, 48>>), StrV(<<97, 98, 99>>), NaN}

GeoFiles ==
    {OneColumn(c_geo, <<v>>) : v \in GeoCellsWide}
    \cup {OneColumn(c_geo, cells) : cells \in SeqsUpTo(GeoCellsNarrow, MaxRows)}

InitGeo ==
    /\ uploaded_file \in GeoFiles
    /\ df = NoFrame
    /\ pc = "uploaded"
    /\ report = NoReport

SpecGeo == InitGeo /\ [][NextLoad]_vars

\* one keyword of each category, in the order of cause_patterns
CauseWords ==
    {<<1087, 1088, 1086, 1074, 1086, 1076, 1082, 1072>>, <<1082, 1091, 1088, 1077, 1085, 1080, 1077>>, <<1087, 1077, 1095, 1100>>, <<1084, 1086, 1083, 1085, 1080, 1103>>, <<1075, 1072, 1079>>, <<1089, 1074, 1072, 1088, 1082, 1072>>, <<1087, 1087, 1073>>}

\* cause texts: pairs of keywords in both orders, and texts of other shapes
CauseTexts ==
    {a \o <<32>> \o b : a \in CauseWords, b \in CauseWords}
    \cup {<<1050, 1086, 1088, 1086, 1090, 1082, 1086, 1077, 32, 1079, 1072, 1084, 1099, 1082, 1072, 1085, 1080, 1077, 32, 1074, 32, 1087, 1088, 1086, 1074, 1086, 1076, 1082, 1077>>, <<1076, 1077, 1090, 1080, 32, 1080, 1075, 1088, 1072, 1083, 1080, 32, 1089, 1086, 32, 1089, 1087, 1080, 1095, 1082, 1072, 1084, 1080>>, <<1043, 1040, 1047>>,
          <<32, 32, 1082, 1091, 1088, 1077, 1085, 1080, 1077, 32, 32>>, <<1101, 1083, 46, 1086, 1073, 1086, 1088, 1091, 1076, 1086, 1074, 1072, 1085, 1080, 1077>>, <<1086, 1073, 1086, 1088, 1091, 1076, 1086, 1074, 1072, 1085, 1080, 1077>>, <<1085, 1077, 1080, 1079, 1074, 1077, 1089, 1090, 1085, 1072, 1103, 32, 1087, 1088, 1080, 1095, 1080, 1085, 1072>>,
          <<1085, 1077, 1090>>, <<1085, 1077, 32, 1091, 1089, 1090, 1072, 1085, 1086, 1074, 1083, 1077, 1085, 1072>>, <<>>, <<110, 97, 110>>, <<78, 111, 110, 101>>, <<1053, 1077, 32, 1091, 1082, 1072, 1079, 1072, 1085, 1072>>,
          <<1101, 1083, 1077, 1082, 1090, 1088, 1080, 1095, 1077, 1089, 1082, 1080, 1081, 32, 1095, 1072, 1081, 1085, 1080, 1082>>, <<1085, 1072, 1088, 1091, 1096, 1077, 1085, 1080, 1077, 32, 1087, 1088, 1072, 1074, 1080, 1083, 32, 1087, 1088, 1080, 32, 1089, 1074, 1072, 1088, 1082, 1077>>,
          <<1089, 1074, 1072, 1088, 1082, 1072, 44, 32, 1085, 1072, 1088, 1091, 1096, 1077, 1085, 1080, 1077, 32, 1087, 1087, 1073>>, <<1055, 1086, 1076, 1078, 1086, 1075>>, <<1080, 1085, 1086, 1077>>, <<1053, 1045, 1058>>, <<1053, 1077, 32, 1059, 1089, 1090, 1072, 1085, 1086, 1074, 1083, 1077, 1085, 1072>>,
          <<32, 32, 32>>, <<1087, 1072, 1083, 32, 1090, 1088, 1072, 1074, 1099, 32>>, <<1087, 1072, 1083, 32, 1090, 1088, 1072, 1074, 1099, 32, 49>>, <<1085, 1077, 32, 1074, 1099, 1103, 1089, 1085, 1077, 1085, 1072>>, <<1053, 1077, 32, 1091, 1082, 1072, 1079, 1072, 1085, 1072, 32>>}

\* the cells of files with several cause columns
CauseCellsNarrow == {NaN, StrV(<<32, 1082, 1091, 1088, 1077, 1085, 1080, 1077, 32>>), StrV(<<110, 97, 110>>), StrV(<<1087, 1077, 1095, 1100>>)}

\* a record of two cause columns and the object column
CauseRecords == {<<a, b, StrV(<<1075, 1072, 1079>>)>> : a \in CauseCellsNarrow, b \in CauseCellsNarrow}

CauseFiles ==
    {OneColumn(c_cause, <<StrV(s)>>) : s \in CauseTexts}
    \cup {OneColumn(c_cause, <<NaN>>), OneColumn(c_object, <<StrV(<<1075, 1072, 1079>>)>>)}
    \cup {FileOf(<<<<1055, 1088, 1080, 1095, 1080, 1085, 1072, 32, 1087, 1086, 1078, 1072, 1088, 1072>>, <<82, 101, 97, 115, 111, 110, 32>>, c_object>>, rows) :
              rows \in SeqsUpTo(CauseRecords, MaxRows)}

InitCause ==
    /\ uploaded_file \in CauseFiles
    /\ df = NoFrame
    /\ pc = "uploaded"
    /\ report = NoReport

SpecCause == InitCause /\ [][NextLoad]_vars

\* date cells: three years, a text that is no date, a missing cell
DateCells ==
    {StrV(<<50, 48, 50, 49, 45, 48, 51, 45, 48, 49>>), StrV(<<50, 48, 50, 50, 45, 48, 55, 45, 49, 53>>), StrV(<<50, 48, 50, 51, 45, 48, 49, 45, 49, 48>>), StrV(<<97, 98, 99>>), NaN}

\* files of a date column, and files of other shapes: a day that does not
\* exist, the second date header, no date column
TrendFiles ==
    {OneColumn(c_date_src, cells) : cells \in SeqsUpTo(DateCells, MaxTrendRows)}
    \cup {OneColumn(c_date_src, <<StrV(<<50, 48, 50, 49, 45, 48, 50, 45, 51, 48>>)>>),
          OneColumn(c_date_src, <<StrV(<<50, 48, 50, 52, 45, 48, 50, 45, 50, 57>>), StrV(<<50, 48, 50, 51, 45, 48, 50, 45, 50, 57>>)>>),
          OneColumn(c_date, <<StrV(<<50, 48, 50, 50, 45, 48, 55, 45, 49, 53>>), NaN>>),
          OneColumn(c_district, <<StrV(<<1040, 1083, 1076, 1072, 1085, 1089, 1082, 1080, 1081>>), NaN>>)}

InitTrend ==
    /\ uploaded_file \in TrendFiles
    /\ df = NoFrame
    /\ pc = "uploaded"
    /\ report = NoReport

SpecTrend == InitTrend /\ [][Next]_vars

\* the cells of files that hold a column under several of its headers
AliasTextCells == {StrV(<<65>>), StrV(<<66>>), NaN}

AliasNumberCells == {StrV(<<49>>), StrV(<<50>>), NaN}

\* the header pairs: a canonical name with one of its aliases, and the two
\* object headers in both column orders
AliasHeaders ==
    {<<c_district, c_district_src>>,
     <<column_mapping[7][1], column_mapping[8][1]>>,
     <<column_mapping[8][1], column_mapping[7][1]>>,
     <<c_object, column_mapping[7][1]>>}

AliasFiles ==
    {FileOf(h, rows) :
        h \in AliasHeaders,
        rows \in SeqsUpTo(AliasTextCells \X AliasTextCells, MaxRows)}
    \cup {FileOf(<<c_deaths, c_deaths_src>>, rows) :
              rows \in SeqsUpTo(AliasNumberCells \X AliasNumberCells, MaxRows)}

InitAlias ==
    /\ uploaded_file \in AliasFiles
    /\ df = NoFrame
    /\ pc = "uploaded"
    /\ report = NoReport

SpecAlias == InitAlias /\ [][NextLoad]_vars

\* the district of the i-th record of a file in which the j-th district has j
\* records: the least j with 1 + 2 + ... + j >= i
DistrictOfRecord(i) == CHOOSE j \in 1..i : j * (j + 1) >= 2 * i /\ (j - 1) * j < 2 * i

\* the causes of the records of such a file, in turn
ShareCauses == <<<<1087, 1088, 1086, 1074, 1086, 1076, 1082, 1072>>, <<1082, 1091, 1088, 1077, 1085, 1080, 1077>>, <<1087, 1072, 1083, 32, 1090, 1088, 1072, 1074, 1099, 32, 49>>>>

\* files of k districts with 1, 2, ..., k records, the causes taking turns
\* among the first m of ShareCauses
ShareFiles ==
    {FileOf(<<c_district_src, c_cause_src>>,
            [i \in 1..((k * (k + 1)) \div 2) |->
                <<StrV(<<1056, 1072, 1081, 1086, 1085, 32>> \o DigitsOf(DistrictOfRecord(i))),
                  StrV(ShareCauses[(i % m) + 1])>>]) :
        k \in 1..MaxDistricts, m \in 1..Len(ShareCauses)}

InitShare ==
    /\ uploaded_file \in ShareFiles
    /\ df = NoFrame
    /\ pc = "uploaded"
    /\ report = NoReport

SpecShare == InitShare /\ [][Next]_vars

\* records for the analyses: date, district, coordinates, cause, deaths, child deaths
ReportRecords ==
    {<<StrV(dt), StrV(di), g, StrV(ca), StrV(<<49>>), StrV(<<49>>)>> :
        dt \in {<<50, 48, 50, 49, 45, 48, 51, 45, 48, 49>>, <<50, 48, 50, 50, 45, 48, 55, 45, 49, 53>>},
        di \in {<<1040, 1083, 1076, 1072, 1085, 1089, 1082, 1080, 1081>>, <<1052, 1080, 1088, 1085, 1080, 1085, 1089, 1082, 1080, 1081>>},
        g \in {StrV(<<54, 48, 46, 53, 32, 49, 51, 49, 46, 49>>), StrV(<<97, 98, 99>>)},
        ca \in {<<1082, 1091, 1088, 1077, 1085, 1080, 1077>>, <<1082, 1086, 1088, 1086, 1090, 1082, 1086, 1077, 32, 1079, 1072, 1084, 1099, 1082, 1072, 1085, 1080, 1077>>}}

ReportFiles ==
    {FileOf(<<c_date_src, c_district_src, c_geo, c_cause_src, c_deaths_src, c_child_deaths_src>>, rows) :
        rows \in SeqsUpTo(ReportRecords, MaxRows)}

Init ==
    /\ uploaded_file \in ReportFiles
    /\ df = NoFrame
    /\ pc = "uploaded"
    /\ report = NoReport

Spec == Init /\ [][Next]_vars
(***************************************************************************)
(* Numeric normalizer: properties                                          *)
(***************************************************************************)
\* the cell of the uploaded file that column c of row i was coerced from:
\* the file's own column c, else the first source header mapped onto c
SourceColumn(c) ==
    LET file == NormalizeColumns(uploaded_file)
        srcs == {k \in 1..Len(column_mapping) :
                    column_mapping[k][2] = c /\ HasCol(file, column_mapping[k][1])}
    IN  IF HasCol(file, c) THEN c
        ELSE IF srcs = {} THEN <<>>
        ELSE column_mapping[CHOOSE k \in srcs : \A j \in srcs : k <= j][1]

RawCell(c, i) == Col(NormalizeColumns(uploaded_file), SourceColumn(c))[i]

IsNonNegInt(v) == v.t = "num" /\ v.sc = 0 /\ v.num >= 0

\* C1: after process_numeric_data every stored value of the six casualty and
\* rescue fields is a non-negative integer, and so are total_deaths and
\* total_injuries of every record
C1_NonNegativeIntegers ==
    pc = "loaded" =>
        \A i \in 1..df.n :
            /\ \A k \in 1..Len(numeric_columns) : IsNonNegInt(Col(df, numeric_columns[k])[i])
            /\ IsNonNegInt(Col(df, c_total_deaths)[i])
            /\ IsNonNegInt(Col(df, c_total_injuries)[i])

\* the coerced value of row i of column c: 0 when the file has no such column
CoercedOrZero(c, i) ==
    IF SourceColumn(c) = <<>> THEN 0 ELSE AsTypeInt(CoerceCell(RawCell(c, i))).num

\* C2: every record of the normalized frame has total_deaths = deaths +
\* child deaths and total_injuries = injuries + child injuries, the addends
\* being the record's own coerced cells (0 for a column the file lacks)
C2_TotalsAreSums ==
    pc = "loaded" =>
        \A i \in 1..df.n :
            /\ Col(df, c_total_deaths)[i]
                   = IntV(CoercedOrZero(c_deaths, i) + CoercedOrZero(c_child_deaths, i))
            /\ Col(df, c_total_injuries)[i]
                   = IntV(CoercedOrZero(c_injuries, i) + CoercedOrZero(c_child_injuries, i))
            /\ Col(df, c_deaths)[i].num = CoercedOrZero(c_deaths, i)
            /\ Col(df, c_child_injuries)[i].num = CoercedOrZero(c_child_injuries, i)

\* a loaded two-record file without the child injuries column whose second
\* record has adult and child deaths and fractional injuries
C2_Witness ==
    /\ pc = "loaded"
    /\ df.n = 2
    /\ ~HasCol(uploaded_file, c_child_injuries_src)
    /\ Col(df, c_deaths)[2] = IntV(3)
    /\ Col(df, c_child_deaths)[2] = IntV(1)
    /\ Col(df, c_total_deaths)[2] = IntV(4)
    /\ Col(df, c_total_injuries)[2] = IntV(2)

\* C3: numeric coercion never raises: whatever the raw cells, load_data
\* returns the full dataset, and a cell that is not a finite number is stored
\* as 0
C3_CoercionNeverRaises ==
    pc # "uploaded" =>
        /\ pc = "loaded"
        /\ df.n = uploaded_file.n
        /\ \A i \in 1..df.n :
               ToNumeric(StripCell(ReplaceComma(RawCell(c_deaths, i)))).t # "num"
                   => Col(df, c_deaths)[i] = IntV(0)

\* the text s is  [spaces] [-] digits (, or .) digits [spaces]  with at least
\* one digit, the digits starting at p, the separator at k, the last one at q
IsDecimalText(s, p, k, q) ==
    /\ p <= k /\ k <= q /\ p < q /\ q <= Len(s)
    /\ s[k] \in {44, 46}
    /\ \A i \in p..q : i # k => IsDigit(s[i])
    /\ \A i \in 1..(p - 1) : s[i] = 32 \/ (i = p - 1 /\ s[i] = 45)
    /\ \A i \in (q + 1)..Len(s) : s[i] = 32

\* the integer written by the digits s[p..k-1]
RECURSIVE WholePart(_, _, _)
WholePart(s, p, k) == IF k <= p THEN 0 ELSE 10 * WholePart(s, p, k - 1) + (s[k - 1] - 48)

\* C4: a cell written with a decimal comma or a decimal point is stored as
\* the number read with the comma as the decimal point, truncated toward
\* zero ("3,0" is 3, "2,9" is 2, "-2,9" is -2)
C4_DecimalCommaTruncates ==
    pc = "loaded" =>
        LET v == uploaded_file.vals[1][1]
        IN  v.t = "str" =>
                \A p \in 1..Len(v.s), k \in 1..Len(v.s), q \in 1..Len(v.s) :
                    IsDecimalText(v.s, p, k, q) =>
                        Col(df, c_deaths)[1]
                            = IntV((IF p > 1 /\ v.s[p - 1] = 45 THEN -1 ELSE 1)
                                   * WholePart(v.s, p, k))

\* the cell "2,9" was loaded and stored as 2
C4_Witness ==
    /\ pc = "loaded"
    /\ uploaded_file.vals[1][1] = StrV(<<50, 44, 57>>)
    /\ Col(df, c_deaths)[1] = IntV(2)

(***************************************************************************)
(* Geocoordinate resolver: properties                                      *)
(***************************************************************************)
\* -bound <= v <= bound for a parsed number v
Within(v, bound) ==
    v.t = "num" /\ -bound * Pow10(v.sc) <= v.num /\ v.num <= bound * Pow10(v.sc)

\* record i of the normalized frame carries no coordinates
GeoAbsent(i) ==
    \/ ~HasCol(df, c_lat) /\ ~HasCol(df, c_lon)
    \/ HasCol(df, c_lat) /\ HasCol(df, c_lon)
           /\ IsNa(Col(df, c_lat)[i]) /\ IsNa(Col(df, c_lon)[i])

\* record i of the normalized frame carries lat = a, lon = b
GeoIs(i, a, b) ==
    HasCol(df, c_lat) /\ HasCol(df, c_lon) /\ Col(df, c_lat)[i] = a /\ Col(df, c_lon)[i] = b

GroupingColumn(kind) ==
    CASE kind = "trends" -> c_year
      [] kind = "districts" -> c_district
      [] kind = "causes" -> c_cause_clean
      [] kind = "locations" -> c_object
      [] kind = "seasonality" -> c_month

\* C7: the counts of the map markers add up to the number of records with
\* resolved coordinates, and in the by-year, by-district, by-cause, by-object
\* and by-month results the count of a key is the number of all records with
\* that key, a record without coordinates being counted like any other
C7_AbsentOnlyLeavesTheMap ==
    /\ report.kind = "map" =>
           SumCounts(report.rows) = Cardinality({i \in 1..df.n : ~GeoAbsent(i)})
    /\ report.kind \in {"trends", "districts", "causes", "locations", "seasonality"} =>
           /\ \A g \in 1..Len(report.rows) :
                  report.rows[g].count
                      = Cardinality({i \in 1..df.n :
                            <<Col(df, GroupingColumn(report.kind))[i]>> = report.rows[g].key})
           /\ \A i \in 1..df.n :
                  (GeoAbsent(i) /\ ~IsNa(Col(df, GroupingColumn(report.kind))[i])) =>
                      \E g \in 1..Len(report.rows) :
                          report.rows[g].key = <<Col(df, GroupingColumn(report.kind))[i]>>

\* the map of two records, the first without coordinates: one marker of one fire
C7_Witness ==
    /\ report.kind = "map"
    /\ df.n = 2
    /\ GeoAbsent(1)
    /\ ~GeoAbsent(2)
    /\ Len(report.rows) = 1
    /\ report.rows[1].count = 1

(***************************************************************************)
(* Cause classifier: properties                                            *)
(***************************************************************************)
\* a keyword of the k-th category occurs in text
CategoryMatches(text, k) ==
    \E j \in 1..Len(cause_patterns[k][2]) : Contains(text, cause_patterns[k][2][j])

\* the merged cause text of record i and its category
MergedText(i) == Col(df, c_cause_merged)[i].s

CategoryOf(i) == Col(df, c_cause_clean)[i].s

\* C8: the category of a record is the earliest category, in the order
\* Electrical, Careless handling of fire, Household appliances, Natural,
\* Technogenic, Construction, Fire-safety violation, that has a keyword
\* occurring in the lowercased merged text, whatever later categories match;
\* equal texts get equal categories
C8_FirstMatchWins ==
    pc = "loaded" =>
        /\ [k \in 1..Len(cause_patterns) |-> cause_patterns[k][1]]
               = <<cat_electrical, cat_careless, cat_household, cat_natural,
                   cat_technogenic, cat_construction, cat_fire_safety>>
        /\ \A i \in 1..df.n : \A k \in 1..Len(cause_patterns) :
               (/\ CategoryMatches(Lower(MergedText(i)), k)
                /\ \A e \in 1..(k - 1) : ~CategoryMatches(Lower(MergedText(i)), e))
                   => CategoryOf(i) = cause_patterns[k][1]
        /\ \A i \in 1..df.n : \A j \in 1..df.n :
               MergedText(i) = MergedText(j) => CategoryOf(i) = CategoryOf(j)

\* "печь проводка": the household keyword comes first in the text, the
\* electrical category comes first in the order
C8_Witness ==
    /\ pc = "loaded"
    /\ df.n = 1
    /\ MergedText(1) = <<1087, 1077, 1095, 1100, 32, 1087, 1088, 1086, 1074, 1086, 1076, 1082, 1072>>
    /\ CategoryMatches(MergedText(1), 3)
    /\ CategoryOf(1) = cat_electrical

\* C9: the text "дети играли со спичками" is classified as careless
\* handling of fire
C9_MatchesAreCareless ==
    pc = "loaded" =>
        \A i \in 1..df.n :
            MergedText(i) = <<1076, 1077, 1090, 1080, 32, 1080, 1075, 1088, 1072, 1083, 1080, 32, 1089, 1086, 32, 1089, 1087, 1080, 1095, 1082, 1072, 1084, 1080>> => CategoryOf(i) = cat_careless

\* the cause columns of the frame improve_cause_analysis received: the names
\* with a cause keyword that come from the file, which leaves out the two
\* columns it adds itself and the cause column filled in after it
IsCauseName(name) ==
    /\ name \notin {c_cause_merged, c_cause_clean}
    /\ SourceColumn(name) # <<>>
    /\ \E w \in {<<1087, 1088, 1080, 1095, 1080, 1085, 1072>>, <<99, 97, 117, 115, 101>>, <<114, 101, 97, 115, 111, 110>>} : Contains(Lower(name), w)

\* the cell holds information: it is present and its text, trimmed, is none
\* of '', 'nan', 'None'
Informative(v) == v.t # "nan" /\ Strip(AsTypeStr(v)) \notin {<<>>, <<110, 97, 110>>, <<78, 111, 110, 101>>}

\* the trimmed informative values of record i in the cause columns among
\* names[k..], in column order
RECURSIVE InformativeValues(_, _, _)
InformativeValues(names, i, k) ==
    IF k > Len(names) THEN <<>>
    ELSE (IF IsCauseName(names[k]) /\ Informative(RawCell(names[k], i))
          THEN <<Strip(AsTypeStr(RawCell(names[k], i)))>> ELSE <<>>)
         \o InformativeValues(names, i, k + 1)

\* the values joined with "; "
RECURSIVE JoinedWithSemicolon(_)
JoinedWithSemicolon(values) ==
    IF Len(values) = 1 THEN values[1]
    ELSE values[1] \o <<59, 32>> \o JoinedWithSemicolon(Tail(values))

C11_YearCountsPreserveTotal ==
    report.kind = "trends" => SumCounts(report.rows) = df.n

\* the years that occur in the normalized dataset
YearsPresent == {Col(df, c_year)[i].num : i \in {j \in 1..df.n : ~IsNa(Col(df, c_year)[j])}}

\* the number of records of year y
RecordsOfYear(y) == Cardinality({i \in 1..df.n : Col(df, c_year)[i] = IntV(y)})

\* the largest year of a non-empty set
Latest(years) == CHOOSE y \in years : \A o \in years : o <= y

\* C13: with fewer than two distinct years the projection reports
\* insufficient data, neither direction nor forecast; with exactly two a
\* direction and no forecast; with three or more a direction and a forecast
C13_ProjectionByNumberOfYears ==
    report.kind = "forecast" =>
        /\ Cardinality(YearsPresent) < 2 => report.rows = <<>>
        /\ Cardinality(YearsPresent) = 2 =>
               /\ Len(report.rows) = 1
               /\ report.rows[1].direction \in {"increasing", "decreasing"}
               /\ report.rows[1].forecast = <<>>
        /\ Cardinality(YearsPresent) >= 3 =>
               /\ Len(report.rows) = 1
               /\ report.rows[1].direction \in {"increasing", "decreasing"}
               /\ Len(report.rows[1].forecast) = 1

\* three records of three years: a direction and a forecast of one fire
C13_Witness ==
    /\ report.kind = "forecast"
    /\ df.n = 3
    /\ Cardinality(YearsPresent) = 3
    /\ Len(report.rows) = 1
    /\ report.rows[1].forecast = <<1>>

\* C16: every record of the normalized dataset has a year and a month: the
\* defaults 2023 and 1 when the file has no date column, and a default too
\* when the date cell of a record is missing or is no date
C16_EveryRecordHasYearAndMonth ==
    pc \notin {"uploaded", "failed"} =>
        /\ \A i \in 1..df.n : ~IsNa(Col(df, c_year)[i]) /\ ~IsNa(Col(df, c_month)[i])
        /\ (~HasCol(uploaded_file, c_date_src) /\ ~HasCol(uploaded_file, c_date)) =>
               \A i \in 1..df.n :
                   Col(df, c_year)[i] = IntV(2023) /\ Col(df, c_month)[i] = IntV(1)

\* C19: with at least two years the direction is "increasing" exactly when
\* the last year has more fires than the year before it in the data, and
\* "decreasing" exactly when it has fewer
C19_DirectionFollowsSign ==
    (report.kind = "forecast" /\ Cardinality(YearsPresent) >= 2) =>
        /\ Len(report.rows) = 1
        /\ report.rows[1].direction = "increasing"
               <=> RecordsOfYear(Latest(YearsPresent))
                       > RecordsOfYear(Latest(YearsPresent \ {Latest(YearsPresent)}))
        /\ report.rows[1].direction = "decreasing"
               <=> RecordsOfYear(Latest(YearsPresent))
                       < RecordsOfYear(Latest(YearsPresent \ {Latest(YearsPresent)}))

(***************************************************************************)
(* Comparison, rankings and casualty sums: properties                      *)
(***************************************************************************)
\* C12: in the year-over-year comparison a row whose prior-year count is zero
\* has its percentage change marked unavailable, not a value
C12_ZeroDenominatorUnavailable ==
    report.kind = "comparison" =>
        \A g \in 1..Len(report.rows) :
            report.rows[g].previous = 0 => IsNa(report.rows[g].percent)

MarkerRecords(key) ==
    {i \in 1..df.n :
        <<Col(df, c_district)[i], Col(df, c_lat)[i], Col(df, c_lon)[i]>> = key}

\* the records in the group of a key of a by-year, by-district or by-cause result
GroupRecords(kind, key) == {i \in 1..df.n : <<Col(df, GroupingColumn(kind))[i]>> = key}

\* the sum of column c over a set of records
RECURSIVE TotalOver(_, _)
TotalOver(c, S) ==
    IF S = {} THEN 0
    ELSE Col(df, c)[CHOOSE i \in S : TRUE].num + TotalOver(c, S \ {CHOOSE i \in S : TRUE})

\* C20: in the results by year, by district and by cause, in the map markers
\* and in the comparison, the deaths of a group are the sum of total_deaths
\* over the records of the group and its injuries the sum of total_injuries
C20_GroupSumsAreTotals ==
    /\ report.kind \in {"trends", "districts", "causes"} =>
           \A g \in 1..Len(report.rows) :
               /\ report.rows[g].sums[1]
                      = TotalOver(c_total_deaths, GroupRecords(report.kind, report.rows[g].key))
               /\ report.rows[g].sums[2]
                      = TotalOver(c_total_injuries, GroupRecords(report.kind, report.rows[g].key))
    /\ report.kind = "map" =>
           \A g \in 1..Len(report.rows) :
               /\ report.rows[g].sums[1]
                      = TotalOver(c_total_deaths, MarkerRecords(report.rows[g].key))
               /\ report.rows[g].sums[2]
                      = TotalOver(c_total_injuries, MarkerRecords(report.rows[g].key))
    /\ report.kind = "comparison" =>
           \A g \in 1..Len(report.rows) :
               report.rows[g].current_deaths
                   = TotalOver(c_total_deaths,
                               {i \in 1..df.n :
                                   /\ <<Col(df, c_district)[i]>> = report.rows[g].key
                                   /\ Col(df, c_year)[i].num = Latest(YearsPresent)})

(***************************************************************************)
(* The alias table: properties                                             *)
(***************************************************************************)
\* the header of the uploaded file that supplies canonical column c when the
\* file has no column c: the first entry of the alias table whose header the
\* file has
FirstAlias(c) ==
    column_mapping[CHOOSE k \in 1..Len(column_mapping) :
                       /\ column_mapping[k][2] = c
                       /\ HasCol(NormalizeColumns(uploaded_file), column_mapping[k][1])
                       /\ \A j \in 1..(k - 1) :
                              ~(/\ column_mapping[j][2] = c
                                /\ HasCol(NormalizeColumns(uploaded_file), column_mapping[j][1]))][1]

\* what the steps after the alias table make of cell v of canonical column c:
\* the integer coercion for a numeric column, the fill of a missing text
Settled(c, v) ==
    IF \E k \in 1..Len(numeric_columns) : numeric_columns[k] = c
    THEN AsTypeInt(CoerceCell(v))
    ELSE IF (\E k \in 1..Len(text_columns) : text_columns[k] = c) /\ IsNa(v)
    THEN StrV(NotSpecifiedText)
    ELSE v

\* C15: for every header of the alias table that the uploaded file has, the
\* header's column is still in the frame with the file's values; a canonical
\* column of the file keeps its own values, and a canonical column the file
\* lacks takes the values of the first alias in the table that the file has
C15_AliasNeverOverwrites ==
    pc = "loaded" =>
        \A k \in 1..Len(column_mapping) :
            HasCol(NormalizeColumns(uploaded_file), column_mapping[k][1]) =>
                /\ HasCol(df, column_mapping[k][1])
                /\ column_mapping[k][1] # column_mapping[k][2]
                       => Col(df, column_mapping[k][1])
                              = Col(NormalizeColumns(uploaded_file), column_mapping[k][1])
                /\ HasCol(df, column_mapping[k][2])
                /\ \A i \in 1..df.n :
                       Col(df, column_mapping[k][2])[i]
                           = Settled(column_mapping[k][2],
                                     Col(NormalizeColumns(uploaded_file),
                                         IF HasCol(NormalizeColumns(uploaded_file),
                                                   column_mapping[k][2])
                                         THEN column_mapping[k][2]
                                         ELSE FirstAlias(column_mapping[k][2]))[i])

\* a file with both object headers, the second of the table first in the
\* file, whose first record has different cells under them
C15_Witness ==
    /\ pc = "loaded"
    /\ uploaded_file.names = <<column_mapping[8][1], column_mapping[7][1]>>
    /\ uploaded_file.n >= 1
    /\ Col(uploaded_file, column_mapping[7][1])[1] = StrV(<<65>>)
    /\ Col(uploaded_file, column_mapping[8][1])[1] = StrV(<<66>>)
    /\ Col(df, c_object)[1] = StrV(<<65>>)

(***************************************************************************)
(* Tokens of a coordinate string: properties                               *)
(***************************************************************************)
\* the maximal runs of characters of s that are not whitespace, cur being
\* the run under construction
RECURSIVE WordsFrom(_, _)
WordsFrom(s, cur) ==
    IF s = <<>> THEN (IF cur = <<>> THEN <<>> ELSE <<cur>>)
    ELSE IF IsSpace(Head(s))
    THEN (IF cur = <<>> THEN <<>> ELSE <<cur>>) \o WordsFrom(Tail(s), <<>>)
    ELSE WordsFrom(Tail(s), Append(cur, Head(s)))

\* the two numbers form a valid pair under one of the two orderings
ValidPair(a, b) ==
    \/ Within(a, 90) /\ Within(b, 180)
    \/ Within(b, 90) /\ Within(a, 180)

\* C17: a coordinate string of two numeric tokens separated and surrounded by
\* any amount of whitespace that form a valid pair under one of the two
\* orderings gives the record coordinates
C17_WhitespaceTokens ==
    pc = "loaded" =>
        \A i \in 1..df.n :
            LET words == WordsFrom(AsTypeStr(Col(uploaded_file, c_geo)[i]), <<>>)
            IN  (/\ Len(words) = 2
                 /\ ValidPair(ToNumeric(StrV(words[1])), ToNumeric(StrV(words[2]))))
                    => ~GeoAbsent(i)

(***************************************************************************)
(* Texts without a category keyword: properties                            *)
(***************************************************************************)
\* the merged cause text of record i, lowercased and trimmed
CleanText(i) == Strip(Lower(MergedText(i)))

\* C18: a record in whose lowercased merged cause text no keyword of any
\* category occurs is classified Other exactly when the lowercased, trimmed
\* text is longer than 10 characters and is none of the no-cause phrases,
\* and Unspecified otherwise; a missing, empty or blank cause is Unspecified
C18_OtherOrUnspecified ==
    pc = "loaded" =>
        \A i \in 1..df.n :
            /\ (\A k \in 1..Len(cause_patterns) : ~CategoryMatches(Lower(MergedText(i)), k))
                   => CategoryOf(i)
                          = IF /\ Len(CleanText(i)) > 10
                               /\ CleanText(i) \notin {<<1085, 1077, 32, 1091, 1082, 1072, 1079, 1072, 1085, 1072>>, <<1085, 1077, 1090>>, <<1085, 1077, 32, 1091, 1089, 1090, 1072, 1085, 1086, 1074, 1083, 1077, 1085, 1072>>}
                            THEN cat_other
                            ELSE cat_unspecified
            /\ (uploaded_file.names = <<c_cause>>
                    /\ (IsNa(Col(uploaded_file, c_cause)[i])
                           \/ Strip(AsTypeStr(Col(uploaded_file, c_cause)[i])) = <<>>))
                   => CategoryOf(i) = cat_unspecified

\* the no-cause phrase of 14 characters, in capitals, is Unspecified
C18_Witness ==
    /\ pc = "loaded"
    /\ df.n = 1
    /\ MergedText(1) = <<1053, 1077, 32, 1059, 1089, 1090, 1072, 1085, 1086, 1074, 1083, 1077, 1085, 1072>>
    /\ Len(CleanText(1)) > 10
    /\ CategoryOf(1) = cat_unspecified

(***************************************************************************)
(* Shares of the total: properties                                         *)
(***************************************************************************)
\* x (in tenths of a percent) is count / total * 100 rounded to one decimal
IsShareOf(x, count, total) ==
    /\ 2 * (x * total - 1000 * count) <= total
    /\ 2 * (1000 * count - x * total) <= total

\* C21: in the district ranking and in the cause table the share of a group
\* is its count as a percentage of the number of records of the dataset,
\* rounded to one decimal, whatever the number of districts or causes
C21_ShareOfAllRecords ==
    report.kind \in {"districts", "causes"} =>
        \A g \in 1..Len(report.rows) :
            IsShareOf(report.rows[g].share, report.rows[g].count, df.n)

====
